---- MODULE Spec2Model ----
(***************************************************************************)
(* ValidationTracer (core/lib/vm/src/oracles/tracer/validation.rs): the    *)
(* tracer the VM calls around every instruction of the account-validation  *)
(* phase.  The model keeps the tracer's fields as variables and has one    *)
(* action per Tracer callback.                                             *)
(*                                                                         *)
(* Values.  A 256-bit value (U256, H256, a 32-byte big-endian word of      *)
(* memory) is <<"w", hi, lo>>: lo is the number held by its low 160 bits   *)
(* (its last 20 bytes) and hi the number held by its upper 96 bits.  A     *)
(* keccak256 digest is the term <<"k", w1, w2>> of the two words hashed:   *)
(* the hash is collision free, its upper 96 bits are not zero and its low  *)
(* 160 bits are no address the model names.  Addresses are numbers.        *)
(***************************************************************************)
EXTENDS Integers, Sequences, FiniteSets, TLC

VARIABLES
    storage,                  \* ValidationTracer.storage (read only here)
    validation_mode,          \* ValidationTracer.validation_mode
    auxilary_allowed_slots,   \* ValidationTracer.auxilary_allowed_slots
    validation_error,         \* ValidationTracer.validation_error
    user_address,             \* ValidationTracer.user_address
    should_stop_execution,    \* ValidationTracer.should_stop_execution
    trusted_slots,            \* ValidationTracer.trusted_slots
    trusted_addresses,        \* ValidationTracer.trusted_addresses
    trusted_address_slots,    \* ValidationTracer.trusted_address_slots
    computational_gas_used,   \* ValidationTracer.computational_gas_used
    computational_gas_limit,  \* ValidationTracer.computational_gas_limit
    pc,                       \* which Tracer callback the VM calls next
    data,                     \* the instruction before_execution was called with
    round                     \* the ValidationRoundResult of this instruction

vars == <<storage, validation_mode, auxilary_allowed_slots, validation_error,
          user_address, should_stop_execution, trusted_slots,
          trusted_addresses, trusted_address_slots, computational_gas_used,
          computational_gas_limit, pc, data, round>>

tracer == <<storage, validation_mode, auxilary_allowed_slots, validation_error,
            user_address, should_stop_execution, trusted_slots,
            trusted_addresses, trusted_address_slots, computational_gas_used,
            computational_gas_limit>>

----
\* Bounds of the model.

\* Width of the gas counters: u32 in the source, GasBits bits here.
GasBits == 2
\* computational_gas_limit handed to ValidationTracer::new.
GasLimit == 1
\* Largest computational_gas_price of one instruction.
MaxCost == 1

U32_MAX == 2 ^ GasBits - 1

----
\* Well-known addresses (zksync_config::constants).

BOOTLOADER_ADDRESS == 32769
ACCOUNT_CODE_STORAGE_ADDRESS == 32770
CONTRACT_DEPLOYER_ADDRESS == 32774
MSG_VALUE_SIMULATOR_ADDRESS == 32777
L2_ETH_TOKEN_ADDRESS == 32778
SYSTEM_CONTEXT_ADDRESS == 32779
KECCAK256_PRECOMPILE_ADDRESS == 32784

\* Addresses of the transactions the model validates.
UserAddr == 10 * 16 + 10      \* params.user_address
OtherAddr == 11 * 16 + 11     \* a deployed contract, no trust relation
BeaconAddr == 12 * 16 + 12    \* a beacon: its slot 0 names the implementation
ImplAddr == 13 * 16 + 13      \* the implementation the beacon names
EmptyAddr == 14 * 16 + 14     \* an address with no code
HashAddr == 15 * 16 + 15      \* the low 160 bits of any digest

----
\* 256-bit values.

Word(hi, lo) == <<"w", hi, lo>>
ZeroWord == Word(0, 0)

\* zksync_types::web3::signing::keccak256 over 64 bytes, as a free term.
keccak256(calldata) == <<"k", calldata[1], calldata[2]>>

IsDigest(w) == w[1] = "k"

\* u256_to_account_address / h256_to_account_address: the last 20 bytes.
u256_to_account_address(w) == IF IsDigest(w) THEN HashAddr ELSE w[3]
h256_to_account_address(w) == IF IsDigest(w) THEN HashAddr ELSE w[3]

\* be_bytes_to_safe_address: Some(address) only when the leading 12 bytes
\* are zero, None otherwise.  Option<Address> is a set of at most one.
be_bytes_to_safe_address(w) ==
    IF IsDigest(w) THEN {}
    ELSE IF w[2] = 0 THEN {w[3]} ELSE {}

\* u256_to_h256 and H256::from_slice: the same 32 big-endian bytes.
u256_to_h256(w) == w
H256_from_slice(w) == w

\* address_to_h256 inside get_code_key: the address, left padded.
get_code_key(address) == <<ACCOUNT_CODE_STORAGE_ADDRESS, Word(0, address)>>
StorageKey_new(address, key) == <<address, key>>

\* StoragePtr::get_value: the stored word, zero for a slot never written.
get_value(key) == IF key \in DOMAIN storage THEN storage[key] ELSE ZeroWord

----
\* ValidationTracerMode
UserTxValidation == "UserTxValidation"
PaymasterTxValidation == "PaymasterTxValidation"
NoValidation == "NoValidation"

\* ViolatedValidationRule
TouchedUnallowedStorageSlots(address, key) ==
    <<"TouchedUnallowedStorageSlots", address, key>>
CalledContractWithNoCode(address) == <<"CalledContractWithNoCode", address>>
TouchedUnallowedContext == <<"TouchedUnallowedContext">>
TookTooManyComputationalGas(limit) == <<"TookTooManyComputationalGas", limit>>

\* Option<ViolatedValidationRule>
None == <<"None">>
Some(rule) == <<"Some", rule>>

\* ValidationRoundResult = Result<NewTrustedValidationItems, ViolatedValidationRule>
NewTrustedValidationItems(slots, addresses) ==
    [new_allowed_slots |-> slots, new_trusted_addresses |-> addresses]
Ok(items) == <<"Ok", items.new_allowed_slots, items.new_trusted_addresses>>
Err(rule) == <<"Err", rule>>
IsOk(result) == result[1] = "Ok"
IsErr(result) == result[1] = "Err"
\* the instruction was not handed to check_user_restrictions
NotEvaluated == <<"NotEvaluated">>

\* VmHook, as before_execution tells its values apart
AccountValidationEntered == "AccountValidationEntered"
PaymasterValidationEntered == "PaymasterValidationEntered"
NoValidationEntered == "NoValidationEntered"
ValidationStepEndeded == "ValidationStepEndeded"
NoHook == "NoHook"

Range(seq) == {seq[i] : i \in DOMAIN seq}

----
\* Policy predicates.

\* the key is not compared: every slot of the context contract passes
touches_any_context(address, key) == address = SYSTEM_CONTEXT_ADDRESS

touches_allowed_context(address, key) ==
    IF address # SYSTEM_CONTEXT_ADDRESS THEN FALSE
    ELSE key = Word(0, 0)

is_constant_code_hash(address, key) ==
    IF address # ACCOUNT_CODE_STORAGE_ADDRESS THEN FALSE
    ELSE get_value(StorageKey_new(address, u256_to_h256(key))) # ZeroWord

valid_eth_token_call(address, msg_sender) ==
    LET is_valid_caller == \/ msg_sender = MSG_VALUE_SIMULATOR_ADDRESS
                           \/ msg_sender = CONTRACT_DEPLOYER_ADDRESS
                           \/ msg_sender = BOOTLOADER_ADDRESS
    IN  address = L2_ETH_TOKEN_ADDRESS /\ is_valid_caller

\* trusted_address_slots is not consulted
is_allowed_without_address_slots(address, key, msg_sender) ==
    IF validation_mode \in {NoValidation, PaymasterTxValidation} THEN TRUE
    ELSE IF valid_eth_token_call(address, msg_sender) THEN TRUE
    ELSE IF \/ <<address, key>> \in trusted_slots
            \/ address \in trusted_addresses
         THEN TRUE
    ELSE IF touches_allowed_context(address, key) THEN TRUE
    ELSE IF \/ address = user_address
            \/ u256_to_account_address(key) = user_address
            \/ u256_to_h256(key) \in auxilary_allowed_slots
         THEN TRUE
    ELSE IF is_constant_code_hash(address, key) THEN TRUE
    ELSE FALSE

\* trusted_slots and trusted_addresses count for the bootloader's reads only
is_allowed_for_trusted_callers(address, key, msg_sender) ==
    IF validation_mode \in {NoValidation, PaymasterTxValidation} THEN TRUE
    ELSE IF valid_eth_token_call(address, msg_sender) THEN TRUE
    ELSE IF \/ /\ msg_sender = BOOTLOADER_ADDRESS
               /\ \/ <<address, key>> \in trusted_slots
                  \/ address \in trusted_addresses
            \/ <<address, key>> \in trusted_address_slots
         THEN TRUE
    ELSE IF touches_allowed_context(address, key) THEN TRUE
    ELSE IF \/ address = user_address
            \/ u256_to_account_address(key) = user_address
            \/ u256_to_h256(key) \in auxilary_allowed_slots
         THEN TRUE
    ELSE IF is_constant_code_hash(address, key) THEN TRUE
    ELSE FALSE

is_allowed_storage_read(address, key, msg_sender) ==
    IF validation_mode \in {NoValidation, PaymasterTxValidation} THEN TRUE
    ELSE IF valid_eth_token_call(address, msg_sender) THEN TRUE
    ELSE IF \/ <<address, key>> \in trusted_slots
            \/ address \in trusted_addresses
            \/ <<address, key>> \in trusted_address_slots
         THEN TRUE
    ELSE IF touches_allowed_context(address, key) THEN TRUE
    ELSE IF \/ address = user_address
            \/ u256_to_account_address(key) = user_address
            \/ u256_to_h256(key) \in auxilary_allowed_slots
         THEN TRUE
    ELSE IF is_constant_code_hash(address, key) THEN TRUE
    ELSE FALSE

\* the first word is truncated to its last 20 bytes, not safely decoded
slot_to_add_truncating(calldata, validated_address) ==
    IF \/ u256_to_account_address(calldata[1]) = validated_address
       \/ H256_from_slice(calldata[2]) \in auxilary_allowed_slots
    THEN {keccak256(calldata)}
    ELSE {}

\* every 64-byte keccak call yields its digest
slot_to_add_always(calldata, validated_address) == {keccak256(calldata)}

\* the second word is not looked up among the allowed slots
slot_to_add_for_user_only(calldata, validated_address) ==
    IF be_bytes_to_safe_address(calldata[1]) = {validated_address}
    THEN {keccak256(calldata)}
    ELSE {}

\* Option<H256> is a set of at most one digest.
slot_to_add_from_keccak_call(calldata, validated_address) ==
    LET potential_address_bytes == calldata[1]
        potential_position_bytes == calldata[2]
        potential_address == be_bytes_to_safe_address(potential_address_bytes)
    IN  IF \/ potential_address = {validated_address}
           \/ H256_from_slice(potential_position_bytes) \in auxilary_allowed_slots
        THEN {keccak256(calldata)}
        ELSE {}

\* u32::wrapping_add in place of saturating_add
wrapping_add(a, b) == (a + b) % (U32_MAX + 1)

\* u32::checked_add(..).unwrap_or_default(): an overflow gives 0
checked_add_or_default(a, b) == IF a + b > U32_MAX THEN 0 ELSE a + b

\* u32::saturating_add
saturating_add(a, b) == IF a + b > U32_MAX THEN U32_MAX ELSE a + b

NoNewItems == NewTrustedValidationItems(<<>>, <<>>)

\* the code of the user's own address is looked up like any other
check_far_call_user_too(d) ==
    LET called_address == u256_to_account_address(d.src1_value)
    IN  IF /\ called_address = KECCAK256_PRECOMPILE_ADDRESS
           /\ d.length = 64
        THEN LET slot_to_add ==
                     slot_to_add_from_keccak_call(d.calldata, user_address)
             IN  IF slot_to_add # {}
                 THEN Ok(NewTrustedValidationItems(
                          <<CHOOSE slot \in slot_to_add : TRUE>>, <<>>))
                 ELSE Ok(NoNewItems)
        ELSE IF get_value(get_code_key(called_address)) = ZeroWord
        THEN Err(CalledContractWithNoCode(called_address))
        ELSE Ok(NoNewItems)

\* check_user_restrictions, the Opcode::FarCall arm.  src1 holds the
\* destination, length is far_call_abi.memory_quasi_fat_pointer.length and
\* calldata the 64 bytes memory.read_unaligned_bytes returns.
check_far_call(d) ==
    LET called_address == u256_to_account_address(d.src1_value)
    IN  IF /\ called_address = KECCAK256_PRECOMPILE_ADDRESS
           /\ d.length = 64
        THEN LET slot_to_add ==
                     slot_to_add_from_keccak_call(d.calldata, user_address)
             IN  IF slot_to_add # {}
                 THEN Ok(NewTrustedValidationItems(
                          <<CHOOSE slot \in slot_to_add : TRUE>>, <<>>))
                 ELSE Ok(NoNewItems)
        ELSE IF called_address # user_address
        THEN LET code == get_value(get_code_key(called_address))
             IN  IF code = ZeroWord
                 THEN Err(CalledContractWithNoCode(called_address))
                 ELSE Ok(NoNewItems)
        ELSE Ok(NoNewItems)

\* ErgsLeft is refused like Meta
check_context_ergs_left_too(d) ==
    IF d.opcode \in {"ContextMeta", "ContextErgsLeft"}
    THEN Err(TouchedUnallowedContext)
    ELSE Ok(NoNewItems)

\* check_user_restrictions, the Opcode::Context arm.
check_context(d) ==
    IF d.opcode = "ContextMeta" THEN Err(TouchedUnallowedContext)
    ELSE Ok(NoNewItems)

\* the address holding the slot is trusted, not the address stored in it
check_storage_read_trusts_slot_owner(d) ==
    LET key == d.src0_value
        this_address == d.this_address
        msg_sender == d.msg_sender
    IN  IF ~is_allowed_storage_read(this_address, key, msg_sender)
        THEN Err(TouchedUnallowedStorageSlots(this_address, key))
        ELSE IF <<this_address, key>> \in trusted_address_slots
        THEN Ok(NewTrustedValidationItems(<<>>, <<this_address>>))
        ELSE Ok(NoNewItems)

\* check_user_restrictions, the Opcode::Log(LogOpcode::StorageRead) arm.
check_storage_read(d) ==
    LET key == d.src0_value
        this_address == d.this_address
        msg_sender == d.msg_sender
    IN  IF ~is_allowed_storage_read(this_address, key, msg_sender)
        THEN Err(TouchedUnallowedStorageSlots(this_address, key))
        ELSE IF <<this_address, key>> \in trusted_address_slots
        THEN LET value == get_value(
                     StorageKey_new(this_address, u256_to_h256(key)))
             IN  Ok(NewTrustedValidationItems(
                     <<>>, <<h256_to_account_address(value)>>))
        ELSE Ok(NoNewItems)

ContextOpcodes == {"ContextMeta", "ContextErgsLeft", "ContextThis"}

\* the budget is tested on the gas used before this instruction
check_before_charging(gas_used, d) ==
    IF computational_gas_used > computational_gas_limit
    THEN Err(TookTooManyComputationalGas(computational_gas_limit))
    ELSE IF d.opcode = "FarCall" THEN check_far_call(d)
    ELSE IF d.opcode \in ContextOpcodes THEN check_context(d)
    ELSE IF d.opcode = "StorageRead" THEN check_storage_read(d)
    ELSE Ok(NoNewItems)

\* check_user_restrictions reads self.computational_gas_used as
\* before_execution has just updated it: gas_used is that value.
check_user_restrictions(gas_used, d) ==
    IF gas_used > computational_gas_limit
    THEN Err(TookTooManyComputationalGas(computational_gas_limit))
    ELSE IF d.opcode = "FarCall" THEN check_far_call(d)
    ELSE IF d.opcode \in ContextOpcodes THEN check_context(d)
    ELSE IF d.opcode = "StorageRead" THEN check_storage_read(d)
    ELSE Ok(NoNewItems)

\* paymaster validation is evaluated as well
evaluates_any_validation(mode) == mode # NoValidation

\* before_execution hands the instruction to check_user_restrictions in
\* this mode only.
evaluates_rules(mode) == mode = UserTxValidation

\* process_validation_round_result, one operator per field it writes.
\* A result that is neither Ok nor Err is NotEvaluated: the call was skipped.
\* the field assigned from result.err(): an Ok outcome clears it
error_from_last_round(result) ==
    IF IsErr(result) THEN Some(result[2]) ELSE None

error_after_round(result) ==
    IF IsErr(result) THEN Some(result[2]) ELSE validation_error

\* the new slots replace the set instead of extending it
allowed_slots_replaced(result) ==
    IF IsOk(result) THEN Range(result[2]) ELSE auxilary_allowed_slots

allowed_slots_after_round(result) ==
    IF IsOk(result) THEN auxilary_allowed_slots \cup Range(result[2])
    ELSE auxilary_allowed_slots

trusted_addresses_after_round(result) ==
    IF IsOk(result) THEN trusted_addresses \cup Range(result[3])
    ELSE trusted_addresses

\* ValidationStepEndeded also leaves the validation mode
mode_reset_at_step_end(current_mode, hook) ==
    IF current_mode = NoValidation /\ hook = AccountValidationEntered
    THEN UserTxValidation
    ELSE IF current_mode = NoValidation /\ hook = PaymasterValidationEntered
    THEN PaymasterTxValidation
    ELSE IF hook \in {NoValidationEntered, ValidationStepEndeded}
    THEN NoValidation
    ELSE current_mode

\* The match on (current_mode, hook) that ends before_execution.
mode_after_hook(current_mode, hook) ==
    IF current_mode = NoValidation /\ hook = AccountValidationEntered
    THEN UserTxValidation
    ELSE IF current_mode = NoValidation /\ hook = PaymasterValidationEntered
    THEN PaymasterTxValidation
    ELSE IF hook = NoValidationEntered THEN NoValidation
    ELSE current_mode

\* only entering the mode the tracer is already in panics
same_mode_entry_panics(current_mode, hook) ==
    \/ current_mode = UserTxValidation /\ hook = AccountValidationEntered
    \/ current_mode = PaymasterTxValidation
           /\ hook = PaymasterValidationEntered

hook_panics(current_mode, hook) ==
    /\ current_mode # NoValidation
    /\ hook \in {AccountValidationEntered, PaymasterValidationEntered}

\* leaving the validation clears the flag
stop_reset_on_exit(current_mode, hook) ==
    IF hook = ValidationStepEndeded THEN TRUE
    ELSE IF hook = NoValidationEntered THEN FALSE
    ELSE should_stop_execution

\* the flag is set only when a validation is running
stop_only_in_validation(current_mode, hook) ==
    IF hook = ValidationStepEndeded /\ current_mode # NoValidation
    THEN TRUE
    ELSE should_stop_execution

stop_after_hook(current_mode, hook) ==
    IF hook = ValidationStepEndeded THEN TRUE ELSE should_stop_execution

\* the stop flag alone
stop_flag_only == should_stop_execution

\* ExecutionEndTracer::should_stop_execution
ShouldStopExecution == should_stop_execution \/ validation_error # None

----
\* The instructions the VM presents.

K0 == Word(0, 0)
K7 == Word(0, 7)
UserWord == Word(0, UserAddr)
\* low 160 bits are the user's address, the upper 96 bits are not zero
DirtyUserWord == Word(1, UserAddr)
OtherWord == Word(0, OtherAddr)
EmptyWord == Word(0, EmptyAddr)
\* the slot of mapping(address => V) at position 7 for the user
UserSlot == keccak256(<<UserWord, K7>>)
\* the slot of a nested mapping under UserSlot
NestedSlot == keccak256(<<OtherWord, UserSlot>>)

\* BeforeExecutionData and the parts of VmLocalStateData and of memory that
\* before_execution reads, with the two values the collaborators compute
\* from them: cost (computational_gas_price) and hook
\* (VmHook::from_opcode_memory).
Instruction(opcode, src0, src1, this_address, msg_sender, length, calldata) ==
    [opcode |-> opcode, src0_value |-> src0, src1_value |-> src1,
     this_address |-> this_address, msg_sender |-> msg_sender,
     length |-> length, calldata |-> calldata]

\* <<this_address, key>> pairs read: for every rule of
\* is_allowed_storage_read a pair only that rule can allow, and a
\* neighbouring pair it does not allow.
ReadSlots == {
    <<OtherAddr, K7>>,                       \* in trusted_slots
    <<OtherAddr, K0>>,                       \* under no rule
    <<ImplAddr, K7>>,                        \* once ImplAddr is trusted
    <<BeaconAddr, K0>>,                      \* in trusted_address_slots
    <<SYSTEM_CONTEXT_ADDRESS, K0>>,          \* the chain id
    <<SYSTEM_CONTEXT_ADDRESS, K7>>,          \* another context slot
    <<SYSTEM_CONTEXT_ADDRESS, UserWord>>,    \* the context slot the user's
                                             \* address numbers
    <<UserAddr, K0>>,                        \* the user's own storage
    <<OtherAddr, UserWord>>,                 \* the key is the user's address
    <<OtherAddr, DirtyUserWord>>,            \* so are its low 160 bits
    <<OtherAddr, UserSlot>>,                 \* once UserSlot is allowed
    <<OtherAddr, NestedSlot>>,               \* once NestedSlot is allowed
    <<ACCOUNT_CODE_STORAGE_ADDRESS, OtherWord>>,  \* a code hash that is set
    <<ACCOUNT_CODE_STORAGE_ADDRESS, EmptyWord>>   \* a code hash that is not
    }
\* msg_sender of those reads: a system contract and a plain one
Senders == {BOOTLOADER_ADDRESS, OtherAddr}
\* msg_sender of the reads of the token contract, where the caller decides
TokenSenders == {MSG_VALUE_SIMULATOR_ADDRESS, CONTRACT_DEPLOYER_ADDRESS,
                 BOOTLOADER_ADDRESS, OtherAddr}

StorageReads ==
    {Instruction("StorageRead", slot[2], K0, slot[1], s, 0, <<K0, K0>>) :
        <<slot, s>> \in ReadSlots \X Senders}
    \cup
    {Instruction("StorageRead", K7, K0, L2_ETH_TOKEN_ADDRESS, s, 0,
                 <<K0, K0>>) : s \in TokenSenders}

KeccakCalldata == {<<UserWord, K7>>, <<DirtyUserWord, K7>>, <<OtherWord, K7>>,
                   <<OtherWord, UserSlot>>}

\* src1 holds the destination in its low 160 bits
FarCalls ==
    {Instruction("FarCall", K0, Word(0, KECCAK256_PRECOMPILE_ADDRESS),
                 UserAddr, BOOTLOADER_ADDRESS, 64, c) : c \in KeccakCalldata}
    \cup
    {Instruction("FarCall", K0, dest, UserAddr, BOOTLOADER_ADDRESS, 32,
                 <<K0, K0>>) :
        dest \in {Word(0, KECCAK256_PRECOMPILE_ADDRESS), UserWord,
                  DirtyUserWord, OtherWord, EmptyWord}}

Others ==
    {Instruction(op, K0, K0, UserAddr, BOOTLOADER_ADDRESS, 0, <<K0, K0>>) :
        op \in ContextOpcodes \cup {"Nop"}}

Hooks == {AccountValidationEntered, PaymasterValidationEntered,
          NoValidationEntered, ValidationStepEndeded, NoHook}
Costs == 0 .. MaxCost

Instructions == StorageReads \cup FarCalls \cup Others

\* no instruction is decoded
NoData == [instr |-> Instruction("None", K0, K0, 0, 0, 0, <<K0, K0>>),
           cost |-> 0, hook |-> NoHook]

\* The storage the transaction runs against: OtherAddr and ImplAddr have
\* code, the beacon's slot 0 holds the implementation's address.
InitialStorage ==
    (get_code_key(OtherAddr) :> Word(9, 9))
    @@ (get_code_key(ImplAddr) :> Word(9, 8))
    @@ (StorageKey_new(BeaconAddr, K0) :> Word(0, ImplAddr))

----
\* ValidationTracer::new
Init ==
    /\ storage = InitialStorage
    /\ validation_error = None
    /\ validation_mode = NoValidation
    /\ auxilary_allowed_slots = {}
    /\ should_stop_execution = FALSE
    /\ user_address = UserAddr
    /\ trusted_slots = {<<OtherAddr, K7>>}
    /\ trusted_addresses = {}
    /\ trusted_address_slots = {<<BeaconAddr, K0>>}
    /\ computational_gas_used = 0
    /\ computational_gas_limit = GasLimit
    /\ pc = "before_execution"
    /\ data = NoData
    /\ round = NotEvaluated

\* the hook is matched first: the instruction is evaluated, or not, in the
\* mode the hook leaves
before_execution_hook_first(instr, cost, hook) ==
    /\ pc = "before_execution"
    /\ LET current_mode == validation_mode
           evaluated == evaluates_rules(mode_after_hook(current_mode, hook))
           gas_used == IF evaluated
                       THEN saturating_add(computational_gas_used, cost)
                       ELSE computational_gas_used
           validation_round_result ==
                       IF evaluated
                       THEN check_user_restrictions(gas_used, instr)
                       ELSE NotEvaluated
       IN  /\ computational_gas_used' = gas_used
           /\ round' = validation_round_result
           /\ validation_error' = error_after_round(validation_round_result)
           /\ auxilary_allowed_slots' =
                  allowed_slots_after_round(validation_round_result)
           /\ trusted_addresses' =
                  trusted_addresses_after_round(validation_round_result)
           /\ validation_mode' = mode_after_hook(current_mode, hook)
           /\ should_stop_execution' = stop_after_hook(current_mode, hook)
           /\ pc' = IF hook_panics(current_mode, hook)
                    THEN "panicked" ELSE "after_execution"
    /\ data' = [instr |-> instr, cost |-> cost, hook |-> hook]
    /\ UNCHANGED <<storage, user_address, trusted_slots, trusted_address_slots,
                   computational_gas_limit>>

\* Tracer::before_execution, called with the instruction the VM is about
\* to run: instr is what it reads of (state, data, memory), cost is
\* computational_gas_price(state, &data) and hook is
\* VmHook::from_opcode_memory(&state, &data).
before_execution(instr, cost, hook) ==
    /\ pc = "before_execution"
    /\ LET evaluated == evaluates_rules(validation_mode)
           gas_used == IF evaluated
                       THEN saturating_add(computational_gas_used, cost)
                       ELSE computational_gas_used
           validation_round_result ==
                       IF evaluated
                       THEN check_user_restrictions(gas_used, instr)
                       ELSE NotEvaluated
           current_mode == validation_mode
       IN  /\ computational_gas_used' = gas_used
           /\ round' = validation_round_result
           /\ validation_error' = error_after_round(validation_round_result)
           /\ auxilary_allowed_slots' =
                  allowed_slots_after_round(validation_round_result)
           /\ trusted_addresses' =
                  trusted_addresses_after_round(validation_round_result)
           /\ validation_mode' = mode_after_hook(current_mode, hook)
           /\ should_stop_execution' = stop_after_hook(current_mode, hook)
           /\ pc' = IF hook_panics(current_mode, hook)
                    THEN "panicked" ELSE "after_execution"
    /\ data' = [instr |-> instr, cost |-> cost, hook |-> hook]
    /\ UNCHANGED <<storage, user_address, trusted_slots, trusted_address_slots,
                   computational_gas_limit>>

\* Tracer::after_execution: the instruction has run, the tracer is left as
\* it is and the VM moves to its next instruction.
after_execution ==
    /\ pc = "after_execution"
    /\ data' = NoData
    /\ round' = NotEvaluated
    /\ pc' = "before_execution"
    /\ UNCHANGED tracer

Next ==
    \/ \E instr \in Instructions, cost \in Costs, hook \in Hooks :
           before_execution(instr, cost, hook)
    \/ after_execution

Spec == Init /\ [][Next]_vars

----
\* What the claims below read of one step.  In a step of before_execution
\* the unprimed variables are the tracer before the call, data' is the
\* instruction of the call and round' its ValidationRoundResult.

BeforeExecutionStep == pc = "before_execution" /\ pc' # "before_execution"
EvaluatedStep == BeforeExecutionStep /\ validation_mode = UserTxValidation
IsNoCodeRule(result) ==
    IsErr(result) /\ result[2][1] = "CalledContractWithNoCode"
IsTouchedSlotRule(result) ==
    IsErr(result) /\ result[2][1] = "TouchedUnallowedStorageSlots"

----
C1_FirstWinsStep ==
    validation_error # None => validation_error' = validation_error

C1_Step ==
    validation_error # None =>
        /\ validation_error' # None
        /\ IsErr(round') => validation_error' = Some(round'[2])
        /\ ~IsErr(round') => validation_error' = validation_error

----
\* C2 as stated: with a violation stored and no ValidationStepEndeded
\* observed, should_stop_execution() returns false.
C2_ViolationAloneDoesNotStop ==
    (validation_error # None /\ ~should_stop_execution)
        => ~ShouldStopExecution

\* C2 amended: an instruction whose outcome is Err stores its violation and
\* from then on should_stop_execution() returns true, whether or not
\* ValidationStepEndeded was observed.
C2_ViolationStops ==
    /\ IsErr(round) => validation_error = Some(round[2])
    /\ validation_error # None => ShouldStopExecution

\* A storage read at an untrusted slot has stored its violation, the stop
\* flag is not set and should_stop_execution() returns true.
C2_Witness ==
    /\ round = Err(TouchedUnallowedStorageSlots(OtherAddr, K0))
    /\ validation_error = Some(TouchedUnallowedStorageSlots(OtherAddr, K0))
    /\ ~should_stop_execution
    /\ ShouldStopExecution

----
C3_Step ==
    /\ pc # "panicked"
    /\ (/\ BeforeExecutionStep
        /\ validation_mode \in {UserTxValidation, PaymasterTxValidation}
        /\ data'.hook \in {AccountValidationEntered,
                           PaymasterValidationEntered})
       => /\ pc' = "panicked"
          /\ validation_mode' = validation_mode
          /\ validation_error' =
                 IF IsErr(round') THEN Some(round'[2]) ELSE validation_error

\* C3: AccountValidationEntered or PaymasterValidationEntered in mode
\* UserTxValidation or PaymasterTxValidation panics: the mode stays as it
\* was, the stored violation is what the instruction's own evaluation left
\* (the nesting is no ViolatedValidationRule), and no callback runs after
\* the panic.
C3_NestedEntryPanics == [][C3_Step]_vars

\* PaymasterValidationEntered arrived in UserTxValidation and the tracer
\* panicked, with no violation stored.
C3_Witness ==
    /\ pc = "panicked"
    /\ validation_mode = UserTxValidation
    /\ data.hook = PaymasterValidationEntered
    /\ validation_error = None

----
C4_ModeTransition(mode, hook) ==
    CASE mode = NoValidation /\ hook = AccountValidationEntered
             -> UserTxValidation
      [] mode = NoValidation /\ hook = PaymasterValidationEntered
             -> PaymasterTxValidation
      [] hook = NoValidationEntered -> NoValidation
      [] OTHER -> mode

C4_Step ==
    validation_mode' =
        IF BeforeExecutionStep
        THEN C4_ModeTransition(validation_mode, data'.hook)
        ELSE validation_mode

\* C4: the mode starts as NoValidation and changes only so:
\* AccountValidationEntered in NoValidation gives UserTxValidation,
\* PaymasterValidationEntered in NoValidation gives PaymasterTxValidation,
\* NoValidationEntered in any mode gives NoValidation; every other pair of
\* mode and hook leaves the mode as it is.
C4_ModeTransitions == validation_mode = NoValidation /\ [][C4_Step]_vars

\* NoValidationEntered has ended a user validation that ran instructions.
C4_Witness ==
    /\ pc = "after_execution"
    /\ data.hook = NoValidationEntered
    /\ validation_mode = NoValidation
    /\ round # NotEvaluated

----
C5_Step ==
    validation_mode \in {NoValidation, PaymasterTxValidation} =>
        /\ round' = NotEvaluated
        /\ UNCHANGED <<validation_error, trusted_slots, trusted_addresses,
                       trusted_address_slots, auxilary_allowed_slots,
                       computational_gas_used>>

\* C5: an instruction observed in mode NoValidation or PaymasterTxValidation
\* is not evaluated: the stored violation, the four trust sets and
\* computational_gas_used stay as they were.
C5_RulesOnlyInUserValidation == [][C5_Step]_vars

\* A costly far call to an address with no code went by in
\* PaymasterTxValidation and nothing was recorded.
C5_Witness ==
    /\ pc = "after_execution"
    /\ validation_mode = PaymasterTxValidation
    /\ data.hook = NoHook
    /\ data.instr.opcode = "FarCall"
    /\ data.instr.src1_value = EmptyWord
    /\ data.cost > 0
    /\ round = NotEvaluated
    /\ validation_error = None
    /\ computational_gas_used = 0

----
C6_Step ==
    (EvaluatedStep /\ computational_gas_used > computational_gas_limit)
        => round' = Err(TookTooManyComputationalGas(computational_gas_limit))

\* C6: once computational_gas_used is above the limit, every evaluation
\* returns TookTooManyComputationalGas(limit), whatever the instruction.
C6_ExceededBudgetPersists == [][C6_Step]_vars

\* A free, allowed storage read is refused for the gas spent before it.
C6_Witness ==
    /\ pc = "after_execution"
    /\ data.instr.opcode = "StorageRead"
    /\ data.instr.this_address = UserAddr
    /\ data.cost = 0
    /\ round = Err(TookTooManyComputationalGas(computational_gas_limit))

----
\* The rules of C7, over the tracer before the call.
C7_Allowed(address, key, caller) ==
    \/ /\ address = L2_ETH_TOKEN_ADDRESS
       /\ caller \in {MSG_VALUE_SIMULATOR_ADDRESS, CONTRACT_DEPLOYER_ADDRESS,
                      BOOTLOADER_ADDRESS}
    \/ <<address, key>> \in trusted_slots
    \/ address \in trusted_addresses
    \/ <<address, key>> \in trusted_address_slots
    \/ address = SYSTEM_CONTEXT_ADDRESS /\ key = Word(0, 0)
    \/ address = user_address
    \/ u256_to_account_address(key) = user_address
    \/ key \in auxilary_allowed_slots
    \/ /\ address = ACCOUNT_CODE_STORAGE_ADDRESS
       /\ get_value(<<address, key>>) # ZeroWord

C7_Step ==
    (EvaluatedStep /\ data'.instr.opcode = "StorageRead") =>
        LET address == data'.instr.this_address
            key == data'.instr.src0_value
            caller == data'.instr.msg_sender
        IN  /\ is_allowed_storage_read(address, key, caller)
                   <=> C7_Allowed(address, key, caller)
            /\ computational_gas_used' <= computational_gas_limit =>
                   IF C7_Allowed(address, key, caller)
                   THEN IsOk(round')
                   ELSE /\ round' = Err(TouchedUnallowedStorageSlots(
                                            address, key))
                        /\ validation_error' =
                               Some(TouchedUnallowedStorageSlots(address, key))

\* C7: in UserTxValidation a storage read at (address, key) with caller c
\* is allowed exactly when one of the nine rules holds; when none holds
\* and the gas used, this instruction's included, is within the limit, the
\* read yields TouchedUnallowedStorageSlots(address, key).
C7_StorageReadPolicy == [][C7_Step]_vars

\* The bootloader's read of a code hash that is not set was refused.
C7_Witness ==
    /\ pc = "after_execution"
    /\ data.instr.msg_sender = BOOTLOADER_ADDRESS
    /\ round = Err(TouchedUnallowedStorageSlots(
                       ACCOUNT_CODE_STORAGE_ADDRESS, EmptyWord))

----
C8_OnlySlotZeroStep ==
    (/\ EvaluatedStep
     /\ data'.instr.opcode = "StorageRead"
     /\ data'.instr.this_address = SYSTEM_CONTEXT_ADDRESS) =>
        (is_allowed_storage_read(data'.instr.this_address,
                                 data'.instr.src0_value,
                                 data'.instr.msg_sender)
             <=> data'.instr.src0_value = Word(0, 0))

\* C8 as stated: a read of slot 0 of the system-context contract is
\* allowed and a read of any other of its slots is not.
C8_OnlySlotZero == [][C8_OnlySlotZeroStep]_vars

C8_OtherRule(address, key) ==
    \/ <<address, key>> \in trusted_slots
    \/ address \in trusted_addresses
    \/ <<address, key>> \in trusted_address_slots
    \/ address = user_address
    \/ u256_to_account_address(key) = user_address
    \/ key \in auxilary_allowed_slots

C8_Step ==
    (/\ EvaluatedStep
     /\ data'.instr.opcode = "StorageRead"
     /\ data'.instr.this_address = SYSTEM_CONTEXT_ADDRESS) =>
        LET address == data'.instr.this_address
            key == data'.instr.src0_value
            allowed == is_allowed_storage_read(address, key,
                                               data'.instr.msg_sender)
        IN  /\ key = Word(0, 0) => allowed /\ ~IsTouchedSlotRule(round')
            /\ key # Word(0, 0) => (allowed <=> C8_OtherRule(address, key))
            /\ (/\ key # Word(0, 0)
                /\ ~C8_OtherRule(address, key)
                /\ computational_gas_used' <= computational_gas_limit)
               => round' = Err(TouchedUnallowedStorageSlots(address, key))

\* C8 amended: a read of slot 0 of the system-context contract is allowed;
\* a read of any other of its slots is allowed only under another rule (a
\* trust set holds the slot or the address, the address is the user's, the
\* key's low 160 bits are the user's address, or the key is an auxiliary
\* allowed slot) and is refused otherwise.
C8_ContextSlots == [][C8_Step]_vars

\* The context slot numbered by the user's address was read and allowed.
C8_Witness ==
    /\ pc = "after_execution"
    /\ data.instr.opcode = "StorageRead"
    /\ data.instr.this_address = SYSTEM_CONTEXT_ADDRESS
    /\ data.instr.src0_value = UserWord
    /\ round = Ok(NoNewItems)

----
C9_AlwaysStep ==
    (EvaluatedStep /\ data'.instr.opcode = "FarCall") =>
        LET destination == u256_to_account_address(data'.instr.src1_value)
            code == get_value(<<ACCOUNT_CODE_STORAGE_ADDRESS,
                                Word(0, destination)>>)
        IN  /\ (destination # user_address /\ code = ZeroWord)
                   => round' = Err(CalledContractWithNoCode(destination))
            /\ destination = user_address => ~IsNoCodeRule(round')

\* C9 as stated: an evaluated far call to a destination other than the
\* user's address whose code hash is zero always yields
\* CalledContractWithNoCode(destination); one to the user's address never.
C9_NoCodeAlways == [][C9_AlwaysStep]_vars

C9_Step ==
    (EvaluatedStep /\ data'.instr.opcode = "FarCall") =>
        LET destination == u256_to_account_address(data'.instr.src1_value)
            code == get_value(<<ACCOUNT_CODE_STORAGE_ADDRESS,
                                Word(0, destination)>>)
            keccak_call == /\ destination = KECCAK256_PRECOMPILE_ADDRESS
                           /\ data'.instr.length = 64
        IN  /\ (/\ destination # user_address
                /\ code = ZeroWord
                /\ computational_gas_used' <= computational_gas_limit
                /\ ~keccak_call)
               => round' = Err(CalledContractWithNoCode(destination))
            /\ destination = user_address => ~IsNoCodeRule(round')

\* C9 amended: an evaluated far call to a destination other than the
\* user's address whose code hash is zero yields
\* CalledContractWithNoCode(destination) unless the gas used is above the
\* limit or the call is a 64-byte call of the keccak precompile; a far call
\* to the user's address never yields it.
C9_NoCode == [][C9_Step]_vars

\* A far call to an address with no code was refused.
C9_Witness ==
    /\ pc = "after_execution"
    /\ data.instr.opcode = "FarCall"
    /\ round = Err(CalledContractWithNoCode(EmptyAddr))

----
C10_IsKeccakCall(instr) ==
    /\ instr.opcode = "FarCall"
    /\ u256_to_account_address(instr.src1_value)
           = KECCAK256_PRECOMPILE_ADDRESS
    /\ instr.length = 64

C10_AlwaysStep ==
    (EvaluatedStep /\ C10_IsKeccakCall(data'.instr)) =>
        LET calldata == data'.instr.calldata
            to_user == be_bytes_to_safe_address(calldata[1]) = {user_address}
        IN  /\ to_user =>
                   /\ round' = Ok(NewTrustedValidationItems(
                                      <<keccak256(calldata)>>, <<>>))
                   /\ keccak256(calldata) \in auxilary_allowed_slots'
            /\ (~to_user /\ calldata[2] \notin auxilary_allowed_slots) =>
                   /\ auxilary_allowed_slots' = auxilary_allowed_slots
                   /\ IsOk(round') => round'[2] = <<>>

\* C10 as stated: an evaluated 64-byte call of the keccak precompile whose
\* first word decodes to the user's address yields keccak256(input) as a
\* new allowed slot; with another first word and a second word that is no
\* allowed slot it yields none.
C10_KeccakAlways == [][C10_AlwaysStep]_vars

C10_Step ==
    (EvaluatedStep /\ C10_IsKeccakCall(data'.instr)) =>
        LET calldata == data'.instr.calldata
            to_user == be_bytes_to_safe_address(calldata[1]) = {user_address}
        IN  /\ (/\ to_user
                /\ computational_gas_used' <= computational_gas_limit) =>
                   /\ round' = Ok(NewTrustedValidationItems(
                                      <<keccak256(calldata)>>, <<>>))
                   /\ auxilary_allowed_slots' =
                          auxilary_allowed_slots \cup {keccak256(calldata)}
            /\ (~to_user /\ calldata[2] \notin auxilary_allowed_slots) =>
                   /\ auxilary_allowed_slots' = auxilary_allowed_slots
                   /\ IsOk(round') => round'[2] = <<>>

\* C10 amended: the same, the first half only while the gas used, this
\* instruction's included, is within the limit; above it the call yields
\* TookTooManyComputationalGas and no slot.
C10_KeccakSlot == [][C10_Step]_vars

\* The keccak call over (user, 7) has made its digest an allowed slot.
C10_Witness ==
    /\ pc = "after_execution"
    /\ data.instr.calldata = <<UserWord, K7>>
    /\ round = Ok(NewTrustedValidationItems(<<UserSlot>>, <<>>))
    /\ UserSlot \in auxilary_allowed_slots

----
C11_ReadOfAllowedSlot ==
    (/\ EvaluatedStep
     /\ data'.instr.opcode = "StorageRead"
     /\ data'.instr.src0_value \in auxilary_allowed_slots) =>
        /\ is_allowed_storage_read(data'.instr.this_address,
                                   data'.instr.src0_value,
                                   data'.instr.msg_sender)
        /\ ~IsTouchedSlotRule(round')

C11_AlwaysStep ==
    /\ auxilary_allowed_slots \subseteq auxilary_allowed_slots'
    /\ (/\ EvaluatedStep
        /\ C10_IsKeccakCall(data'.instr)
        /\ data'.instr.calldata[2] \in auxilary_allowed_slots)
       => keccak256(data'.instr.calldata) \in auxilary_allowed_slots'
    /\ C11_ReadOfAllowedSlot

\* C11 as stated: a key a keccak call has made an allowed slot stays one;
\* every later evaluated 64-byte keccak call whose second word is that key
\* makes keccak256(input) an allowed slot, whatever its first word; a read
\* of an allowed slot is allowed at every address.
C11_NestedAlways == [][C11_AlwaysStep]_vars

C11_Step ==
    /\ auxilary_allowed_slots \subseteq auxilary_allowed_slots'
    /\ (/\ EvaluatedStep
        /\ C10_IsKeccakCall(data'.instr)
        /\ data'.instr.calldata[2] \in auxilary_allowed_slots
        /\ computational_gas_used' <= computational_gas_limit)
       => /\ round' = Ok(NewTrustedValidationItems(
                             <<keccak256(data'.instr.calldata)>>, <<>>))
          /\ keccak256(data'.instr.calldata) \in auxilary_allowed_slots'
    /\ C11_ReadOfAllowedSlot

\* C11 amended: the same, the keccak call adding its digest only while the
\* gas used, this instruction's included, is within the limit; above it
\* the call yields TookTooManyComputationalGas and no slot.
C11_NestedMapping == [][C11_Step]_vars

\* The digest of (other, UserSlot) was made an allowed slot by a second
\* keccak call and a read of it at another contract was allowed.
C11_Witness ==
    /\ pc = "after_execution"
    /\ data.instr.opcode = "StorageRead"
    /\ data.instr.this_address = OtherAddr
    /\ data.instr.src0_value = NestedSlot
    /\ NestedSlot \in auxilary_allowed_slots
    /\ round = Ok(NoNewItems)

----
C12_AlwaysStep ==
    (EvaluatedStep /\ data'.instr.opcode \in ContextOpcodes) =>
        IF data'.instr.opcode = "ContextMeta"
        THEN round' = Err(TouchedUnallowedContext)
        ELSE round' # Err(TouchedUnallowedContext)

\* C12 as stated: an evaluated ContextOpcode::Meta always yields
\* TouchedUnallowedContext; ErgsLeft and every other context opcode never.
C12_MetaAlways == [][C12_AlwaysStep]_vars

C12_Step ==
    (EvaluatedStep /\ data'.instr.opcode \in ContextOpcodes) =>
        IF data'.instr.opcode = "ContextMeta"
        THEN IF computational_gas_used' <= computational_gas_limit
             THEN /\ round' = Err(TouchedUnallowedContext)
                  /\ validation_error' = Some(TouchedUnallowedContext)
             ELSE round' = Err(TookTooManyComputationalGas(
                                   computational_gas_limit))
        ELSE round' # Err(TouchedUnallowedContext)

\* C12 amended: an evaluated ContextOpcode::Meta yields
\* TouchedUnallowedContext while the gas used, this instruction's
\* included, is within the limit, and TookTooManyComputationalGas above
\* it; ErgsLeft and every other context opcode never yield
\* TouchedUnallowedContext.
C12_ContextQueries == [][C12_Step]_vars

\* A Meta query was refused and its violation stored.
C12_Witness ==
    /\ pc = "after_execution"
    /\ data.instr.opcode = "ContextMeta"
    /\ round = Err(TouchedUnallowedContext)
    /\ validation_error = Some(TouchedUnallowedContext)

----
C13_Step ==
    (/\ EvaluatedStep
     /\ data'.instr.opcode = "StorageRead"
     /\ \/ <<data'.instr.this_address, data'.instr.src0_value>>
               \in trusted_slots
        \/ data'.instr.this_address \in trusted_addresses) =>
        /\ is_allowed_storage_read(data'.instr.this_address,
                                   data'.instr.src0_value,
                                   data'.instr.msg_sender)
        /\ ~IsTouchedSlotRule(round')
        /\ computational_gas_used' <= computational_gas_limit
               => IsOk(round')

\* C13: in UserTxValidation a storage read at (address, key) is allowed and
\* never yields TouchedUnallowedStorageSlots when (address, key) is in
\* trusted_slots or address is in trusted_addresses, whoever the caller is.
C13_SeededTrust == [][C13_Step]_vars

\* A plain contract's read at a trusted address, under a key no other rule
\* allows, went through.
C13_Witness ==
    /\ pc = "after_execution"
    /\ data.instr.opcode = "StorageRead"
    /\ data.instr.this_address = ImplAddr
    /\ data.instr.src0_value = K7
    /\ data.instr.msg_sender = OtherAddr
    /\ ImplAddr \in trusted_addresses
    /\ validation_mode = UserTxValidation
    /\ round = Ok(NoNewItems)

----
C14_Step ==
    (BeforeExecutionStep /\ data'.hook = ValidationStepEndeded) =>
        /\ should_stop_execution'
        /\ validation_mode' = validation_mode
        /\ ShouldStopExecution'

\* C14: ValidationStepEndeded, in whatever mode it is observed, sets the
\* stop flag and leaves the mode as it is; should_stop_execution() then
\* returns true.
C14_StepEndSetsStop == [][C14_Step]_vars

\* ValidationStepEndeded arrived outside any validation, with no violation
\* stored: the flag alone makes should_stop_execution() true.
C14_Witness ==
    /\ pc = "after_execution"
    /\ data.hook = ValidationStepEndeded
    /\ validation_mode = NoValidation
    /\ validation_error = None
    /\ should_stop_execution
    /\ ShouldStopExecution

----
C15_Step ==
    /\ trusted_slots \subseteq trusted_slots'
    /\ trusted_addresses \subseteq trusted_addresses'
    /\ trusted_address_slots \subseteq trusted_address_slots'
    /\ auxilary_allowed_slots \subseteq auxilary_allowed_slots'

\* C15: over every instruction and hook each of trusted_slots,
\* trusted_addresses, trusted_address_slots and auxilary_allowed_slots
\* after the step holds everything it held before: nothing is removed.
C15_TrustSetsGrow == [][C15_Step]_vars

\* Both keccak digests and the implementation's address were added one
\* after the other and are all still there.
C15_Witness ==
    /\ pc = "after_execution"
    /\ auxilary_allowed_slots = {UserSlot, NestedSlot}
    /\ trusted_addresses = {ImplAddr}
    /\ trusted_slots = {<<OtherAddr, K7>>}
    /\ trusted_address_slots = {<<BeaconAddr, K0>>}

----
C16_CheckFirstStep ==
    EvaluatedStep =>
        /\ computational_gas_used <= computational_gas_limit
               => round' # Err(TookTooManyComputationalGas(
                                   computational_gas_limit))
        /\ computational_gas_used > computational_gas_limit
               => round' = Err(TookTooManyComputationalGas(
                                   computational_gas_limit))

\* C16 as stated: the budget is tested on the gas used that the earlier
\* instructions left, the cost is added afterwards: an instruction that
\* starts with used <= limit never yields TookTooManyComputationalGas, the
\* next evaluated instruction does.
C16_CheckBeforeCharge == [][C16_CheckFirstStep]_vars

C16_Step ==
    EvaluatedStep =>
        /\ computational_gas_used' =
               IF computational_gas_used + data'.cost > U32_MAX
               THEN U32_MAX
               ELSE computational_gas_used + data'.cost
        /\ round' = Err(TookTooManyComputationalGas(computational_gas_limit))
               <=> computational_gas_used' > computational_gas_limit

\* C16 amended: the cost is added first (saturating) and the budget is
\* tested on the sum: an instruction yields TookTooManyComputationalGas
\* exactly when the gas used with its own cost added is above the limit,
\* so the instruction whose cost crosses the limit is itself refused.
C16_ChargeBeforeCheck == [][C16_Step]_vars

\* An instruction that started within the limit was refused for its own
\* cost.
C16_Witness ==
    /\ pc = "after_execution"
    /\ data.cost > 0
    /\ computational_gas_used < U32_MAX
    /\ computational_gas_used - data.cost <= computational_gas_limit
    /\ round = Err(TookTooManyComputationalGas(computational_gas_limit))

----
C17_ReadAtTrustedAddress ==
    /\ trusted_addresses \subseteq trusted_addresses'
    /\ (/\ EvaluatedStep
        /\ data'.instr.opcode = "StorageRead"
        /\ data'.instr.this_address \in trusted_addresses) =>
           /\ is_allowed_storage_read(data'.instr.this_address,
                                      data'.instr.src0_value,
                                      data'.instr.msg_sender)
           /\ ~IsTouchedSlotRule(round')

C17_NoOtherAddress ==
    (/\ EvaluatedStep
     /\ data'.instr.opcode = "StorageRead"
     /\ <<data'.instr.this_address, data'.instr.src0_value>>
            \notin trusted_address_slots) =>
        /\ trusted_addresses' = trusted_addresses
        /\ IsOk(round') => round'[3] = <<>>

C17_AlwaysStep ==
    /\ (/\ EvaluatedStep
        /\ data'.instr.opcode = "StorageRead"
        /\ <<data'.instr.this_address, data'.instr.src0_value>>
               \in trusted_address_slots) =>
           LET address == data'.instr.this_address
               key == data'.instr.src0_value
               decoded == h256_to_account_address(get_value(<<address, key>>))
           IN  /\ is_allowed_storage_read(address, key,
                                          data'.instr.msg_sender)
               /\ ~IsTouchedSlotRule(round')
               /\ decoded \in trusted_addresses'
    /\ C17_ReadAtTrustedAddress
    /\ C17_NoOtherAddress

\* C17 as stated: an evaluated read at a pair in trusted_address_slots is
\* always allowed and adds the address its stored value decodes to to
\* trusted_addresses; every later read at that address is allowed for any
\* key and caller; a read at a pair outside the set adds no address.
C17_IndirectionAlways == [][C17_AlwaysStep]_vars

C17_Step ==
    /\ (/\ EvaluatedStep
        /\ data'.instr.opcode = "StorageRead"
        /\ <<data'.instr.this_address, data'.instr.src0_value>>
               \in trusted_address_slots) =>
           LET address == data'.instr.this_address
               key == data'.instr.src0_value
               decoded == h256_to_account_address(get_value(<<address, key>>))
           IN  /\ is_allowed_storage_read(address, key,
                                          data'.instr.msg_sender)
               /\ ~IsTouchedSlotRule(round')
               /\ IF computational_gas_used' <= computational_gas_limit
                  THEN /\ round' = Ok(NewTrustedValidationItems(
                                          <<>>, <<decoded>>))
                       /\ trusted_addresses' =
                              trusted_addresses \cup {decoded}
                  ELSE trusted_addresses' = trusted_addresses
    /\ C17_ReadAtTrustedAddress
    /\ C17_NoOtherAddress

\* C17 amended: the same, the read adding the decoded address only while
\* the gas used, this instruction's included, is within the limit; above
\* it the read yields TookTooManyComputationalGas and adds no address.
C17_IndirectionSlots == [][C17_Step]_vars

\* The read of the beacon's slot has made the implementation it names a
\* trusted address.
C17_Witness ==
    /\ pc = "after_execution"
    /\ data.instr.opcode = "StorageRead"
    /\ data.instr.this_address = BeaconAddr
    /\ data.instr.src0_value = K0
    /\ round = Ok(NewTrustedValidationItems(<<>>, <<ImplAddr>>))
    /\ ImplAddr \in trusted_addresses

----
C18_Step ==
    /\ should_stop_execution => should_stop_execution'
    /\ validation_error # None => validation_error' # None
    /\ ShouldStopExecution => ShouldStopExecution'

\* C18: once should_stop_execution() has returned true it returns true
\* after every further instruction and hook: the stop flag is never reset
\* and a stored violation never cleared, not by NoValidationEntered and not
\* by a later Ok outcome.
C18_StopIsSticky == [][C18_Step]_vars

\* With the flag set and a violation stored, an instruction evaluated Ok
\* carried NoValidationEntered: both are still there.
C18_Witness ==
    /\ pc = "after_execution"
    /\ data.hook = NoValidationEntered
    /\ IsOk(round)
    /\ should_stop_execution
    /\ validation_error # None
    /\ ShouldStopExecution

----
C19_Step ==
    /\ (/\ BeforeExecutionStep
        /\ validation_mode = NoValidation
        /\ data'.hook = AccountValidationEntered) =>
           /\ validation_mode' = UserTxValidation
           /\ round' = NotEvaluated
           /\ computational_gas_used' = computational_gas_used
           /\ validation_error' = validation_error
    /\ (/\ BeforeExecutionStep
        /\ validation_mode = UserTxValidation
        /\ data'.hook \in {NoValidationEntered, ValidationStepEndeded}) =>
           /\ round' # NotEvaluated
           /\ computational_gas_used' =
                  IF computational_gas_used + data'.cost > U32_MAX
                  THEN U32_MAX
                  ELSE computational_gas_used + data'.cost
           /\ IsErr(round') => validation_error' = Some(round'[2])

\* C19: an instruction is evaluated in the mode in force before its hook is
\* applied.  The instruction carrying AccountValidationEntered in
\* NoValidation is not evaluated and not charged; the instruction carrying
\* NoValidationEntered or ValidationStepEndeded in UserTxValidation is
\* evaluated and charged, and a violation it yields is stored.
C19_ModeBeforeHook == [][C19_Step]_vars

\* The instruction that left the user validation was charged and its
\* read of an untrusted slot stored as the violation.
C19_Witness ==
    /\ pc = "after_execution"
    /\ data.hook = NoValidationEntered
    /\ validation_mode = NoValidation
    /\ data.cost > 0
    /\ computational_gas_used = data.cost
    /\ round = Err(TouchedUnallowedStorageSlots(OtherAddr, K0))
    /\ validation_error = Some(TouchedUnallowedStorageSlots(OtherAddr, K0))

----
\* Where a digest among the allowed slots comes from.
C20_Provenance ==
    \A slot \in auxilary_allowed_slots :
        /\ IsDigest(slot)
        /\ \/ be_bytes_to_safe_address(slot[2]) = {user_address}
           \/ slot[3] \in auxilary_allowed_slots

C20_Step ==
    auxilary_allowed_slots' # auxilary_allowed_slots =>
        /\ EvaluatedStep
        /\ C10_IsKeccakCall(data'.instr)
        /\ computational_gas_used' <= computational_gas_limit
        /\ \/ be_bytes_to_safe_address(data'.instr.calldata[1])
                  = {user_address}
           \/ data'.instr.calldata[2] \in auxilary_allowed_slots
        /\ auxilary_allowed_slots' =
               auxilary_allowed_slots \cup {keccak256(data'.instr.calldata)}

\* C20: auxilary_allowed_slots starts empty and in every reachable state
\* each of its keys is the keccak256 digest of two words of which the first
\* decodes to the user's address or the second is itself an allowed slot;
\* the set changes only in a 64-byte keccak call evaluated in
\* UserTxValidation with the gas used within the limit, which adds the
\* digest of its input.  Storage reads, context opcodes, other far calls
\* and hooks add nothing.
C20_AuxiliarySlotProvenance ==
    /\ auxilary_allowed_slots = {}
    /\ []C20_Provenance
    /\ [][C20_Step]_vars

\* A keccak call whose first word is not the user's address added its
\* digest on the strength of its second word.
C20_Witness ==
    /\ pc = "after_execution"
    /\ data.instr.calldata = <<OtherWord, UserSlot>>
    /\ round = Ok(NewTrustedValidationItems(<<NestedSlot>>, <<>>))
    /\ auxilary_allowed_slots = {UserSlot, NestedSlot}

----
C21_Step ==
    /\ computational_gas_used' >= computational_gas_used
    /\ computational_gas_used' <= U32_MAX
    /\ computational_gas_limit' = computational_gas_limit
    /\ computational_gas_used > computational_gas_limit
           => computational_gas_used' > computational_gas_limit'
    /\ (EvaluatedStep /\ computational_gas_used + data'.cost > U32_MAX)
           => computational_gas_used' = U32_MAX

\* C21: computational_gas_used starts at 0, never decreases over any
\* instruction or hook and stays at the largest u32 where the sum would
\* pass it; computational_gas_limit keeps the value new gave it.  So once
\* the gas used is above the limit it stays above it.
C21_GasCounter ==
    /\ computational_gas_used = 0
    /\ computational_gas_limit = GasLimit
    /\ [][C21_Step]_vars

\* The counter stands at the largest u32, above the limit, after a charged
\* instruction.
C21_Witness ==
    /\ pc = "after_execution"
    /\ round # NotEvaluated
    /\ data.cost > 0
    /\ computational_gas_used = U32_MAX
    /\ computational_gas_used > computational_gas_limit
    /\ computational_gas_limit = GasLimit

====
